---------------------------- MODULE Spec2Model ----------------------------
(***************************************************************************)
(* The useExtract hook (job polling controller with persistence) of the    *)
(* video-to-audio front-end, as a state machine.                           *)
(*                                                                         *)
(* One controller instance runs on a single-threaded event loop: every     *)
(* action below is one run-to-completion step of the hook: a handler up to *)
(* its await, the continuation after an await (with the response the       *)
(* service gave), an interval callback, the unmount cleanup.  A job        *)
(* request that has been sent stays in `inflight` until its promise        *)
(* settles; `inflight` is kept in the order the requests were issued.      *)
(***************************************************************************)
EXTENDS Naturals, Sequences, FiniteSets

(* ------------------------------ bounds -------------------------------- *)

\* Jobs ever submitted to the service (a job persisted by an earlier page
\* load counts as one).
MaxJobs == 2

\* Interval callbacks that run in one behaviour.
MaxTicks == 1

\* fetchInfo calls made in one behaviour.
MaxInfos == 1

\* Status fetches in flight together in the runs where the interval keeps
\* firing (SpecResume): a tick waits while this many are outstanding.
MaxInflight == 2

\* Status fetches that fail at transport level in those runs before status
\* fetches succeed.
MaxFailures == 2

\* handleUpload calls in a run.
MaxUploads == 2

\* Pieces of text in a url.
MaxUrlLen == 2

(* ----------------------------- constants ------------------------------ *)

\* JobStatus, in the order the service moves a job through.
NonTerminal == <<"pending", "processing", "downloading", "extracting", "uploading">>

InProcess == {NonTerminal[i] : i \in 1..Len(NonTerminal)}

Terminal == {"completed", "failed"}

\* Position of a status in the progression (both terminal statuses last).
Rank(s) == IF s \in InProcess
           THEN CHOOSE i \in 1..Len(NonTerminal) : NonTerminal[i] = s
           ELSE Len(NonTerminal) + 1

\* JavaScript's undefined for an optional field, null for a state cell that
\* holds a string, and the null of a ref or of a storage read (ids start at 1).
Undefined == "undefined"

Null == "null"

NoId == 0

\* result.error values the service may report with status failed: absent,
\* the empty string, or a message.
ResultErrors == {Undefined, "", "Video too long"}

\* What a failed request rejects with (Error.message).
RequestError == "Failed to fetch"

\* Job as carried by a response and held in the `job` state cell: job_id,
\* status and result.error (progress, message and created_at are carried
\* along and read by nothing in the hook; video_info travels beside it).
JobRec(id, st, err) == [job_id |-> id, status |-> st, err |-> err]

\* useState<JobResponse | null>(null)
NoJob == JobRec(NoId, "none", Undefined)

\* a || b on optional strings: b when a is undefined or empty.
OrElse(a, b) == IF a = Undefined \/ a = "" THEN b ELSE a

(* ------------------------------- state -------------------------------- *)

VARIABLES
    isLoading,    \* useState(false)
    isPolling,    \* useState(false)
    job,          \* useState<JobResponse | null>(null)
    videoInfo,    \* useState<VideoInfo | null>(null)
    error,        \* useState<string | null>(null)
    pollingRef,   \* useRef: handle of the interval started last, or NoId
    jobIdRef,     \* useRef: id the interval callback polls, or NoId
    storage,      \* localStorage[STORAGE_KEY], or NoId when the key is absent
    timers,       \* handles of the intervals that are set and not cleared
    nextTimer,    \* handle the next setInterval returns
    inflight,     \* job requests sent and not yet settled, in issue order
    srv,          \* the service: job id -> its status and result.error
    submitted,    \* jobs submitted to the service so far
    nTicks,       \* interval callbacks run so far
    calls,        \* invocations of onComplete / onError, in order
    logged,       \* number of console.error calls made by pollJob
    mounted,      \* the component using the hook is mounted
    nInfos,       \* fetchInfo calls made so far
    lookups       \* GET /info requests sent and not yet settled

vars == <<isLoading, isPolling, job, videoInfo, error, pollingRef, jobIdRef,
          storage, timers, nextTimer, inflight, srv, submitted, nTicks,
          calls, logged, mounted, nInfos, lookups>>

JobIds == 1..MaxJobs

\* A request in flight: its kind, the job it asks for, and the stage the job
\* was in when the request was sent (the service answers it at some moment
\* between then and the moment the promise settles).  Two marks record what
\* happened while it was in flight: `late`, that another fetch of the same
\* job resolved with a terminal status; `torn`, that extract() or reset()
\* was called ("no" otherwise; the later call when both were).
Request(kind, id, from) ==
    [kind |-> kind, job_id |-> id, from |-> from, late |-> FALSE, torn |-> "no"]

\* The requests s with every status fetch of a poll loop marked torn by `by`.
Torn(s, by) ==
    [k \in 1..Len(s) |->
        IF s[k].kind = "poll" THEN [s[k] EXCEPT !.torn = by] ELSE s[k]]

\* The sequence s without its i-th element.
RemoveAt(s, i) == [k \in 1..(Len(s) - 1) |-> IF k < i THEN s[k] ELSE s[k + 1]]

(* --------------------------- the service ------------------------------ *)

(* The service is external: the hook sees a job only through the responses *)
(* it receives.  The service moves a job forward only, so srv[j] keeps the *)
(* furthest point any response about job j has shown so far: the job was   *)
(* at least there when a later request is sent, and a terminal status,     *)
(* once reported, is the one every later terminal response reports.        *)
(* stage is the furthest non-terminal stage shown (0: no such job).        *)
SrvAbsent == [status |-> "absent", err |-> Undefined, stage |-> 0]

SrvGone == [status |-> "gone", err |-> Undefined, stage |-> 0]

SrvPending == [status |-> "pending", err |-> Undefined, stage |-> 1]

\* The earliest stage job j can be in when a request is sent now: past every
\* stage once the job is known to be terminal.
StageNow(j) == IF srv[j].status \in InProcess THEN srv[j].stage
               ELSE Len(NonTerminal) + 1

\* A settled request: the response body of a 2xx, or the rejection.
Ok(j, vi) == [ok |-> TRUE, job |-> j, video_info |-> vi, msg |-> ""]

Failure == [ok |-> FALSE, job |-> NoJob, video_info |-> Undefined, msg |-> RequestError]

\* The terminal outcomes job j can still be reported with.
Outcomes(j) ==
    IF srv[j].status \in Terminal
    THEN {[status |-> srv[j].status, err |-> srv[j].err]}
    ELSE {[status |-> "completed", err |-> Undefined]}
         \cup {[status |-> "failed", err |-> e] : e \in ResultErrors}

\* GET /jobs/{job_id} answering with a snapshot of the job no earlier than
\* stage `from` (video_info attached or not), or failing (unknown job,
\* transport error).
Snapshots(j, from) ==
    IF j = NoId \/ srv[j].status \notin InProcess \cup Terminal THEN {Failure}
    ELSE {Failure}
         \cup {Ok(JobRec(j, NonTerminal[k], Undefined), vi) :
                  k \in from..Len(NonTerminal), vi \in {Undefined, "info"}}
         \cup {Ok(JobRec(j, o.status, o.err), vi) :
                  o \in Outcomes(j), vi \in {Undefined, "info"}}

\* The responses request r can get: the service answers it at some moment
\* between the moment it was sent and the moment its promise settles.
GetJobResponses(r) == Snapshots(r.job_id, r.from)

\* The responses request r can get when the service answers the requests in
\* the order they were sent: nothing earlier than what was already shown.
GetJobInOrder(r) ==
    IF r.job_id = NoId THEN {Failure}
    ELSE Snapshots(r.job_id, StageNow(r.job_id))

\* The service after response resp about a job has been received.
Shown(resp) ==
    LET j == resp.job.job_id
        st == resp.job.status
    IN
    IF ~resp.ok \/ srv[j].status \in Terminal THEN srv
    ELSE IF st \in Terminal
    THEN [srv EXCEPT ![j].status = st, ![j].err = resp.job.err]
    ELSE IF Rank(st) > srv[j].stage
    THEN [srv EXCEPT ![j].status = st, ![j].stage = Rank(st)]
    ELSE srv

\* The id the service gives the next job it creates.
FreeIds == {j \in JobIds : srv[j].status = "absent"}

NewJobId == CHOOSE j \in FreeIds : \A k \in FreeIds : j <= k

\* POST /extract: the created job (status pending), or a rejection.
ExtractResponses ==
    {Failure} \cup {Ok(JobRec(NewJobId, "pending", Undefined), Undefined) :
                        x \in {y \in {1} : FreeIds # {}}}

(* --------------------------- the controller --------------------------- *)

\* localStorage.getItem(STORAGE_KEY) at mount.
getSavedJobId == storage

\* startPolling(jobId), called with `base` in flight and the job at stage
\* `from` or later: sets jobIdRef, issues pollJob(jobId) at once and starts
\* the interval, whose handle overwrites pollingRef.
startPolling(jobId, from, base) ==
    /\ jobIdRef' = jobId
    /\ isPolling' = TRUE
    /\ isLoading' = FALSE
    /\ inflight' = Append(base, Request("poll", jobId, from))
    /\ pollingRef' = nextTimer
    /\ timers' = timers \cup {nextTimer}
    /\ nextTimer' = nextTimer + 1

\* The interval callback of timer t: pollJob(jobIdRef.current) when set.
IntervalCallback(t) ==
    /\ t \in timers
    /\ inflight' = IF jobIdRef # NoId
                   THEN Append(inflight, Request("poll", jobIdRef, StageNow(jobIdRef)))
                   ELSE inflight
    /\ UNCHANGED <<isLoading, isPolling, job, videoInfo, error, pollingRef,
                   jobIdRef, storage, timers, nextTimer, srv, submitted,
                   calls, logged, mounted, nInfos, lookups>>

\* Timer t fires, one of the MaxTicks times it does in a behaviour.
Tick(t) ==
    /\ nTicks < MaxTicks
    /\ nTicks' = nTicks + 1
    /\ IntervalCallback(t)

\* The requests s once its i-th has resolved with a terminal status: the
\* i-th removed, the other fetches of the same job marked late.
SettleTerminal(s, i) ==
    RemoveAt([k \in 1..Len(s) |->
                 IF k # i /\ s[k].kind = "poll" /\ s[k].job_id = s[i].job_id
                 THEN [s[k] EXCEPT !.late = TRUE] ELSE s[k]], i)

\* An invocation of onComplete(job) or onError(new Error(msg)), made by the
\* continuation of request r.
OnComplete(j, r) == [cb |-> "onComplete", job |-> j, msg |-> "", late |-> r.late]

OnError(m, r) == [cb |-> "onError", job |-> NoJob, msg |-> m, late |-> r.late]

\* PollCatch with a transport failure taken for a failure of the job: the
\* loop is stopped and the error surfaced.
PollCatchStops(i) ==
    /\ logged' = logged + 1
    /\ inflight' = RemoveAt(inflight, i)
    /\ isPolling' = FALSE
    /\ error' = RequestError
    /\ pollingRef' = NoId
    /\ timers' = timers \ {pollingRef}
    /\ calls' = Append(calls, OnError(RequestError, inflight[i]))
    /\ UNCHANGED <<job, videoInfo, storage>>

\* pollJob's catch: the i-th request in flight was rejected; console.error.
PollCatch(i) ==
    /\ logged' = logged + 1
    /\ inflight' = RemoveAt(inflight, i)
    /\ UNCHANGED <<job, videoInfo, isPolling, error, pollingRef, timers,
                   storage, calls>>

\* PollCompleted without clearJobId(): the persisted identifier survives.
PollCompletedKeepsId(i, resp) ==
    /\ isPolling' = FALSE
    /\ pollingRef' = NoId
    /\ timers' = timers \ {pollingRef}
    /\ storage' = storage
    /\ calls' = Append(calls, OnComplete(resp.job, inflight[i]))
    /\ inflight' = SettleTerminal(inflight, i)
    /\ UNCHANGED error

\* PollCompleted without setIsPolling(false).
PollCompletedStaysPolling(i, resp) ==
    /\ isPolling' = isPolling
    /\ pollingRef' = NoId
    /\ timers' = timers \ {pollingRef}
    /\ storage' = NoId
    /\ calls' = Append(calls, OnComplete(resp.job, inflight[i]))
    /\ inflight' = SettleTerminal(inflight, i)
    /\ UNCHANGED error

\* pollJob's branch for status completed.
PollCompleted(i, resp) ==
    /\ isPolling' = FALSE
    /\ pollingRef' = NoId
    /\ timers' = timers \ {pollingRef}
    /\ storage' = NoId
    /\ calls' = Append(calls, OnComplete(resp.job, inflight[i]))
    /\ inflight' = SettleTerminal(inflight, i)
    /\ UNCHANGED error

\* PollFailed without clearJobId(): the persisted identifier survives.
PollFailedKeepsId(i, resp) ==
    /\ isPolling' = FALSE
    /\ error' = OrElse(resp.job.err, "Error en la extracción")
    /\ pollingRef' = NoId
    /\ timers' = timers \ {pollingRef}
    /\ storage' = storage
    /\ calls' = Append(calls, OnError(OrElse(resp.job.err, "Error"), inflight[i]))
    /\ inflight' = SettleTerminal(inflight, i)

\* pollJob's branch for status failed.
PollFailed(i, resp) ==
    /\ isPolling' = FALSE
    /\ error' = OrElse(resp.job.err, "Error en la extracción")
    /\ pollingRef' = NoId
    /\ timers' = timers \ {pollingRef}
    /\ storage' = NoId
    /\ calls' = Append(calls, OnError(OrElse(resp.job.err, "Error"), inflight[i]))
    /\ inflight' = SettleTerminal(inflight, i)

\* pollJob after api.getJob resolved with resp for the i-th request in flight.
PollThen(i, resp) ==
    /\ job' = resp.job
    /\ videoInfo' = IF resp.video_info # Undefined
                    THEN resp.video_info ELSE videoInfo
    /\ IF resp.job.status = "completed" THEN PollCompleted(i, resp)
       ELSE IF resp.job.status = "failed" THEN PollFailed(i, resp)
       ELSE /\ inflight' = RemoveAt(inflight, i)
            /\ UNCHANGED <<isPolling, error, pollingRef, timers, storage, calls>>
    /\ UNCHANGED logged

\* pollJob after its await: the i-th request in flight settles with resp.
PollSettle(i, resp) ==
    /\ inflight[i].kind = "poll"
    /\ IF resp.ok THEN PollThen(i, resp) ELSE PollCatch(i)
    /\ srv' = Shown(resp)
    /\ UNCHANGED <<isLoading, jobIdRef, nextTimer, submitted, nTicks,
                   mounted, nInfos, lookups>>

\* ResumeCatch without clearJobId(): the identifier of the job that could
\* not be fetched stays persisted.
ResumeCatchKeepsId(i) ==
    /\ storage' = storage
    /\ inflight' = RemoveAt(inflight, i)
    /\ UNCHANGED <<job, videoInfo, isPolling, isLoading, pollingRef,
                   jobIdRef, timers, nextTimer, calls>>

\* The mount effect's .catch: the resume fetch was rejected; clearJobId().
ResumeCatch(i) ==
    /\ storage' = NoId
    /\ inflight' = RemoveAt(inflight, i)
    /\ UNCHANGED <<job, videoInfo, isPolling, isLoading, pollingRef,
                   jobIdRef, timers, nextTimer, calls>>

\* The mount effect's branch for a job still in process: startPolling.
ResumeInProcess(i, resp) ==
    /\ startPolling(inflight[i].job_id, Shown(resp)[inflight[i].job_id].stage,
                    RemoveAt(inflight, i))
    /\ UNCHANGED <<storage, calls>>

\* ResumeFinished taking a finished job for one in process: a loop is
\* started for it.
ResumeFinishedPolls(i, resp) ==
    /\ startPolling(inflight[i].job_id, StageNow(inflight[i].job_id),
                    RemoveAt(inflight, i))
    /\ storage' = NoId
    /\ calls' = IF resp.job.status = "completed"
                THEN Append(calls, OnComplete(resp.job, inflight[i]))
                ELSE calls

\* ResumeFinished reporting a failed job as pollJob does: setError and
\* onError.
ResumeFinishedReports(i, resp) ==
    /\ storage' = NoId
    /\ calls' = IF resp.job.status = "completed"
                THEN Append(calls, OnComplete(resp.job, inflight[i]))
                ELSE Append(calls, OnError(OrElse(resp.job.err, "Error"), inflight[i]))
    /\ inflight' = RemoveAt(inflight, i)
    /\ UNCHANGED <<isPolling, isLoading, pollingRef, jobIdRef, timers,
                   nextTimer>>

\* The mount effect's branch for a job that already finished: clearJobId(),
\* and onComplete when it completed.
ResumeFinished(i, resp) ==
    /\ storage' = NoId
    /\ calls' = IF resp.job.status = "completed"
                THEN Append(calls, OnComplete(resp.job, inflight[i]))
                ELSE calls
    /\ inflight' = RemoveAt(inflight, i)
    /\ UNCHANGED <<isPolling, isLoading, pollingRef, jobIdRef, timers,
                   nextTimer>>

\* The mount effect's api.getJob(savedJobId) settles with resp (.then / .catch).
ResumeSettle(i, resp) ==
    /\ inflight[i].kind = "resume"
    /\ IF ~resp.ok
       THEN ResumeCatch(i)
       ELSE /\ job' = resp.job
            /\ videoInfo' = IF resp.video_info # Undefined
                            THEN resp.video_info ELSE videoInfo
            /\ IF resp.job.status \in InProcess
               THEN ResumeInProcess(i, resp)
               ELSE ResumeFinished(i, resp)
    /\ srv' = Shown(resp)
    /\ UNCHANGED <<error, submitted, nTicks, logged, mounted, nInfos, lookups>>

\* Extract without its teardown of the interval: the handle stays in
\* pollingRef and the interval keeps running.
ExtractKeepsTimer ==
    /\ mounted
    /\ submitted < MaxJobs
    /\ submitted' = submitted + 1
    /\ isLoading' = TRUE
    /\ isPolling' = FALSE
    /\ error' = Null
    /\ job' = NoJob
    /\ inflight' = Append(Torn(inflight, "extract"), Request("extract", NoId, 0))
    /\ UNCHANGED <<videoInfo, jobIdRef, storage, nextTimer, srv, nTicks,
                   calls, logged, mounted, nInfos, lookups, timers,
                   pollingRef>>

\* extract(url, format, quality) up to its await: clears the interval and
\* the job and error state, then sends POST /extract.
Extract ==
    /\ mounted
    /\ submitted < MaxJobs
    /\ submitted' = submitted + 1
    /\ timers' = timers \ {pollingRef}
    /\ pollingRef' = NoId
    /\ isLoading' = TRUE
    /\ isPolling' = FALSE
    /\ error' = Null
    /\ job' = NoJob
    /\ inflight' = Append(Torn(inflight, "extract"), Request("extract", NoId, 0))
    /\ UNCHANGED <<videoInfo, jobIdRef, storage, nextTimer, srv, nTicks,
                   calls, logged, mounted, nInfos, lookups>>

\* ExtractThen without saveJobId(): the new job's id is not persisted.
ExtractThenNoSave(i, resp) ==
    /\ srv' = [srv EXCEPT ![resp.job.job_id] = SrvPending]
    /\ job' = resp.job
    /\ storage' = storage
    /\ startPolling(resp.job.job_id, SrvPending.stage, RemoveAt(inflight, i))
    /\ UNCHANGED <<error, calls>>

\* extract after api.startExtraction resolved with resp: the service has
\* created the job; setJob, saveJobId, startPolling.
ExtractThen(i, resp) ==
    /\ srv' = [srv EXCEPT ![resp.job.job_id] = SrvPending]
    /\ job' = resp.job
    /\ storage' = resp.job.job_id
    /\ startPolling(resp.job.job_id, SrvPending.stage, RemoveAt(inflight, i))
    /\ UNCHANGED <<error, calls>>

\* ExtractCatch discarding the persisted identifier as reset() does.
ExtractCatchClearsId(i, resp) ==
    /\ error' = resp.msg
    /\ isLoading' = FALSE
    /\ calls' = Append(calls, OnError(resp.msg, inflight[i]))
    /\ inflight' = RemoveAt(inflight, i)
    /\ storage' = NoId
    /\ UNCHANGED <<job, jobIdRef, isPolling, pollingRef, timers,
                   nextTimer, srv>>

\* extract's catch: setError, setIsLoading(false), onError.
ExtractCatch(i, resp) ==
    /\ error' = resp.msg
    /\ isLoading' = FALSE
    /\ calls' = Append(calls, OnError(resp.msg, inflight[i]))
    /\ inflight' = RemoveAt(inflight, i)
    /\ UNCHANGED <<job, storage, jobIdRef, isPolling, pollingRef, timers,
                   nextTimer, srv>>

\* extract after its await: the i-th request in flight settles with resp.
ExtractSettle(i, resp) ==
    /\ inflight[i].kind = "extract"
    /\ IF resp.ok THEN ExtractThen(i, resp) ELSE ExtractCatch(i, resp)
    /\ UNCHANGED <<videoInfo, submitted, nTicks, logged, mounted, nInfos, lookups>>

\* reset()
Reset ==
    /\ mounted
    /\ timers' = timers \ {pollingRef}
    /\ pollingRef' = NoId
    /\ storage' = NoId
    /\ isLoading' = FALSE
    /\ isPolling' = FALSE
    /\ job' = NoJob
    /\ videoInfo' = Null
    /\ error' = Null
    /\ jobIdRef' = NoId
    /\ inflight' = Torn(inflight, "reset")
    /\ UNCHANGED <<nextTimer, srv, submitted, nTicks, calls, logged,
                   mounted, nInfos, lookups>>

\* GET /info: the metadata of the referenced video, or a rejection.
InfoResponses == {Failure, Ok(NoJob, "info")}

\* FetchInfo without setVideoInfo(null): the metadata fetched before stays.
FetchInfoKeepsInfo ==
    /\ mounted
    /\ nInfos < MaxInfos
    /\ nInfos' = nInfos + 1
    /\ isLoading' = TRUE
    /\ error' = Null
    /\ lookups' = lookups + 1
    /\ UNCHANGED <<isPolling, job, pollingRef, jobIdRef, storage, timers,
                   nextTimer, inflight, srv, submitted, nTicks, calls, logged,
                   mounted, videoInfo>>

\* FetchInfo taking the lookup for a new submission: the held job is dropped.
FetchInfoDropsJob ==
    /\ mounted
    /\ nInfos < MaxInfos
    /\ nInfos' = nInfos + 1
    /\ isLoading' = TRUE
    /\ error' = Null
    /\ videoInfo' = Null
    /\ job' = NoJob
    /\ lookups' = lookups + 1
    /\ UNCHANGED <<isPolling, pollingRef, jobIdRef, storage, timers, nextTimer,
                   inflight, srv, submitted, nTicks, calls, logged, mounted>>

\* fetchInfo(url) up to its await: clears error and videoInfo, then sends
\* GET /info.
FetchInfo ==
    /\ mounted
    /\ nInfos < MaxInfos
    /\ nInfos' = nInfos + 1
    /\ isLoading' = TRUE
    /\ error' = Null
    /\ videoInfo' = Null
    /\ lookups' = lookups + 1
    /\ UNCHANGED <<isPolling, job, pollingRef, jobIdRef, storage, timers,
                   nextTimer, inflight, srv, submitted, nTicks, calls, logged,
                   mounted>>

\* fetchInfo after its await: one of the lookups in flight settles with resp
\* (try / catch / finally).
InfoSettle(resp) ==
    /\ lookups > 0
    /\ lookups' = lookups - 1
    /\ IF resp.ok
       THEN videoInfo' = resp.video_info /\ UNCHANGED error
       ELSE error' = resp.msg /\ UNCHANGED videoInfo
    /\ isLoading' = FALSE
    /\ UNCHANGED <<isPolling, job, pollingRef, jobIdRef, storage, timers,
                   nextTimer, inflight, srv, submitted, nTicks, calls, logged,
                   mounted, nInfos>>

\* The component unmounts: the effect's cleanup clears the interval whose
\* handle pollingRef holds (and leaves the handle there).  Nothing calls
\* extract, reset or fetchInfo afterwards; requests in flight still settle
\* and intervals still fire.  After this step a state cell holds the value
\* last passed to its setter, which nothing renders any more.
Unmount ==
    /\ mounted
    /\ mounted' = FALSE
    /\ timers' = timers \ {pollingRef}
    /\ UNCHANGED <<isLoading, isPolling, job, videoInfo, error, pollingRef,
                   jobIdRef, storage, nextTimer, inflight, srv, submitted,
                   nTicks, calls, logged, nInfos, lookups>>

(* ------------------------ the request helper -------------------------- *)

(* One call of the API client's request helper: `request` of the client    *)
(* the hook uses, or `handleResponse` of the other client.                 *)
VARIABLES
    reqHelper,    \* the helper a call is in: "none", "request", "handleResponse"
    reqResponse,  \* what fetch settled with, NoResponse while it has not
    reqOutcome    \* what the helper's promise settled with, Pending before

reqVars == <<reqHelper, reqResponse, reqOutcome>>

\* response.status values: 2xx and not.
Statuses == {200, 201, 400, 404, 422, 500, 503}

\* response.ok
IsOk(status) == status \in 200..299

\* The detail field of a JSON body: absent, a string, or (the validation
\* errors of the API framework) an array of objects, with the text
\* String(detail) gives.
NoDetail == [type |-> "undefined", text |-> "undefined"]

StringDetail(t) == [type |-> "string", text |-> t]

ArrayDetail == [type |-> "array", text |-> "[object Object]"]

Details ==
    {NoDetail, ArrayDetail}
    \cup {StringDetail(t) : t \in {"", "Job no encontrado", "URL no soportada"}}

\* A response body: one response.json() rejects for, the JSON null, or a
\* JSON object with its detail field.
Unparsable == [parse |-> "error", detail |-> NoDetail]

JsonNull == [parse |-> "null", detail |-> NoDetail]

JsonObject(d) == [parse |-> "object", detail |-> d]

Bodies == {Unparsable, JsonNull} \cup {JsonObject(d) : d \in Details}

\* What fetch settles with: a response, or a rejection (network error).
NoResponse == [kind |-> "none", status |-> 0, body |-> Unparsable]

NetworkError == [kind |-> "network", status |-> 0, body |-> Unparsable]

Response(st, b) == [kind |-> "response", status |-> st, body |-> b]

Responses == {Response(st, b) : st \in Statuses, b \in Bodies}

\* What a promise settles with.
Pending == [state |-> "pending", name |-> "", message |-> "", value |-> Unparsable]

Resolved(v) == [state |-> "resolved", name |-> "", message |-> "", value |-> v]

Rejected(n, m) == [state |-> "rejected", name |-> n, message |-> m, value |-> Unparsable]

\* `HTTP ${response.status}`
HttpStatusText(status) ==
    CASE status = 400 -> "HTTP 400"
      [] status = 404 -> "HTTP 404"
      [] status = 422 -> "HTTP 422"
      [] status = 500 -> "HTTP 500"
      [] status = 503 -> "HTTP 503"
      [] OTHER -> "HTTP 2xx"

\* JavaScript truthiness of a detail field.
Truthy(d) == d.type = "array" \/ (d.type = "string" /\ d.text # "")

\* NotOk with every non-2xx response reported by the fallback text alone.
NotOkGeneric(r, name, fallback) == Rejected(name, fallback)

\* The !response.ok branch: the body is parsed, { detail: 'Error
\* desconocido' } standing in for one that does not parse, and an error of
\* class `name` is thrown with message error.detail || fallback (reading
\* .detail of null throws a TypeError instead).
NotOk(r, name, fallback) ==
    LET parsed == IF r.body.parse = "error"
                  THEN JsonObject(StringDetail("Error desconocido"))
                  ELSE r.body
    IN  IF parsed.parse = "null"
        THEN Rejected("TypeError", "Cannot read properties of null")
        ELSE Rejected(name, IF Truthy(parsed.detail) THEN parsed.detail.text
                            ELSE fallback)

\* return response.json()
ReturnJson(r) ==
    IF r.body.parse = "error"
    THEN Rejected("SyntaxError", "Unexpected token")
    ELSE Resolved(r.body)

\* request<T>(endpoint, options) once fetch has settled with r.
request(r) ==
    IF r.kind = "network" THEN Rejected("TypeError", RequestError)
    ELSE IF ~IsOk(r.status) THEN NotOk(r, "Error", HttpStatusText(r.status))
    ELSE ReturnJson(r)

\* handleResponse<T>(response), and its caller's await fetch when fetch
\* rejects.
handleResponse(r) ==
    IF r.kind = "network" THEN Rejected("TypeError", RequestError)
    ELSE IF ~IsOk(r.status) THEN NotOk(r, "ApiError", "Error en la solicitud")
    ELSE ReturnJson(r)

\* No call of a request helper has been made.
RequestIdle ==
    reqHelper = "none" /\ reqResponse = NoResponse /\ reqOutcome = Pending

(* --------------------------- the file upload ------------------------- *)

(* App's upload state and the api.uploadVideo call handleUpload awaits.    *)
VARIABLES
    isUploading,       \* useState(false)
    uploadResult,      \* useState(null)
    uploadError,       \* useState(null)
    uploadProgress,    \* useState(0)
    progressTimers,    \* the live simulated-progress intervals
    progressInterval,  \* const progressInterval of the latest handleUpload
    nUploads,          \* handleUpload calls so far
    upPhase,           \* uploadVideo: "none", "fetching", "reading", "settled"
    upArmed,           \* the 900000 ms timeout is pending
    upResponse,        \* what the fetch of the latest call resolved with
    upOutcome,         \* what the latest uploadVideo promise settled with
    upAborted          \* controller.abort() ran in the latest call

uploadVars ==
    <<isUploading, uploadResult, uploadError, uploadProgress, progressTimers,
      progressInterval, nUploads, upPhase, upArmed, upResponse, upOutcome,
      upAborted>>

\* The message of the error thrown for an aborted upload.
TookTooLong ==
    "La solicitud tardo demasiado tiempo. Intenta con un archivo mas pequeno o verifica tu conexion."

\* An UploadResponse body: its status and optional message; NoUploadResult
\* is null.
UploadResult(st, msg) == [status |-> st, message |-> msg]

NoUploadResult == UploadResult("", Undefined)

UploadResults ==
    {UploadResult(st, msg) : st \in {"success", "error"},
                            msg \in {Undefined, "Formato no soportado"}}

\* What the fetch of /upload resolves with: a non-2xx response with any
\* body, or a 200 whose body does not parse or is an UploadResponse.
UploadResponse(st, b, u) ==
    [kind |-> "response", status |-> st, body |-> b, result |-> u]

NoUploadResponse ==
    [kind |-> "none", status |-> 0, body |-> Unparsable, result |-> NoUploadResult]

UploadResponses ==
    {UploadResponse(st, b, NoUploadResult) : st \in {413, 500}, b \in Bodies}
    \cup {UploadResponse(200, Unparsable, NoUploadResult)}
    \cup {UploadResponse(200, JsonObject(NoDetail), u) : u \in UploadResults}

\* uploadVideo's catch block: an AbortError becomes the took-too-long
\* error, any other error is rethrown.
uploadVideoCatch(e) ==
    IF e.name = "AbortError" THEN Rejected("Error", TookTooLong) ELSE e

\* uploadVideo after its fetch resolved with r: the try block's rest, and
\* the catch block for what it throws.
uploadVideoThen(r) ==
    IF ~IsOk(r.status)
    THEN uploadVideoCatch(NotOk(r, "Error", HttpStatusText(r.status)))
    ELSE uploadVideoCatch(ReturnJson(r))

\* No upload has been started.
UploadIdle ==
    /\ isUploading = FALSE
    /\ uploadResult = NoUploadResult
    /\ uploadError = Null
    /\ uploadProgress = 0
    /\ progressTimers = {}
    /\ progressInterval = NoId
    /\ nUploads = 0
    /\ upPhase = "none"
    /\ upArmed = FALSE
    /\ upResponse = NoUploadResponse
    /\ upOutcome = Pending
    /\ upAborted = FALSE

\* handleUpload's first part: the state is reset, the progress interval
\* set and api.uploadVideo called, which arms its timeout and fetches.
\* The FileUpload control is rendered while there is neither a result nor
\* an error, and is given isLoading = isUploading.
HandleUpload ==
    /\ uploadResult = NoUploadResult /\ uploadError \in {Null, ""}
    /\ ~isUploading
    /\ nUploads < MaxUploads
    /\ isUploading' = TRUE
    /\ uploadError' = Null
    /\ uploadResult' = NoUploadResult
    /\ uploadProgress' = 10
    /\ nUploads' = nUploads + 1
    /\ progressInterval' = nUploads + 1
    /\ progressTimers' = progressTimers \cup {nUploads + 1}
    /\ upPhase' = "fetching"
    /\ upArmed' = TRUE
    /\ upResponse' = NoUploadResponse
    /\ upOutcome' = Pending
    /\ upAborted' = FALSE

\* A simulated-progress interval fires.
ProgressTick(t) ==
    /\ t \in progressTimers
    /\ uploadProgress' = IF uploadProgress + 10 < 90 THEN uploadProgress + 10 ELSE 90
    /\ UNCHANGED <<isUploading, uploadResult, uploadError, progressTimers,
                   progressInterval, nUploads, upPhase, upArmed, upResponse,
                   upOutcome, upAborted>>

\* handleUpload after api.uploadVideo settled with o (u being the parsed
\* body when it resolved): the interval is cleared and the result or its
\* message stored on the resolved path, the error's message on the
\* rejected one; finally isUploading is reset.
HandleUploadSettles(o, u) ==
    /\ isUploading' = FALSE
    /\ IF o.state = "resolved"
       THEN /\ progressTimers' = progressTimers \ {progressInterval}
            /\ uploadProgress' = 100
            /\ IF u.status = "success"
               THEN uploadResult' = u /\ UNCHANGED uploadError
               ELSE /\ uploadError' = OrElse(u.message, "Error al procesar el archivo")
                    /\ UNCHANGED uploadResult
       ELSE /\ uploadError' = o.message
            /\ UNCHANGED <<progressTimers, uploadProgress, uploadResult>>
    /\ UNCHANGED <<progressInterval, nUploads>>

\* UploadResponds with the timeout left pending.
UploadRespondsKeepsTimeout(r) ==
    /\ upPhase = "fetching"
    /\ upPhase' = "reading"
    /\ upResponse' = r
    /\ UNCHANGED <<upArmed, upOutcome, upAborted, isUploading, uploadResult,
                   uploadError, uploadProgress, progressTimers,
                   progressInterval, nUploads>>

\* The fetch resolves with r: the timeout is cleared and the body is read.
UploadResponds(r) ==
    /\ upPhase = "fetching"
    /\ upPhase' = "reading"
    /\ upArmed' = FALSE
    /\ upResponse' = r
    /\ UNCHANGED <<upOutcome, upAborted, isUploading, uploadResult,
                   uploadError, uploadProgress, progressTimers,
                   progressInterval, nUploads>>

\* The body has been read: uploadVideo settles and handleUpload resumes.
UploadBodyRead ==
    /\ upPhase = "reading"
    /\ upPhase' = "settled"
    /\ upArmed' = FALSE
    /\ upOutcome' = uploadVideoThen(upResponse)
    /\ HandleUploadSettles(uploadVideoThen(upResponse), upResponse.result)
    /\ UNCHANGED <<upResponse, upAborted>>

\* The fetch rejects (network error): the catch block clears the timeout
\* and rethrows, and handleUpload resumes.
UploadFetchFails ==
    /\ upPhase = "fetching"
    /\ upPhase' = "settled"
    /\ upArmed' = FALSE
    /\ upOutcome' = uploadVideoCatch(Rejected("TypeError", RequestError))
    /\ HandleUploadSettles(uploadVideoCatch(Rejected("TypeError", RequestError)),
                           NoUploadResult)
    /\ UNCHANGED <<upResponse, upAborted>>

\* The timeout fires: controller.abort() rejects what the call awaits with
\* an AbortError, the catch block replaces it, and handleUpload resumes.
UploadTimeout ==
    /\ upArmed
    /\ upPhase \in {"fetching", "reading"}
    /\ upPhase' = "settled"
    /\ upArmed' = FALSE
    /\ upAborted' = TRUE
    /\ upOutcome' = uploadVideoCatch(Rejected("AbortError", "The operation was aborted."))
    /\ HandleUploadSettles(
          uploadVideoCatch(Rejected("AbortError", "The operation was aborted.")),
          NoUploadResult)
    /\ UNCHANGED upResponse

\* handleReset, offered with a result or an error on display: the hook's
\* reset, then the upload state is cleared.
HandleReset ==
    /\ uploadResult # NoUploadResult \/ uploadError \notin {Null, ""}
    /\ Reset
    /\ uploadResult' = NoUploadResult
    /\ uploadError' = Null
    /\ uploadProgress' = 0
    /\ UNCHANGED <<isUploading, progressTimers, progressInterval, nUploads,
                   upPhase, upArmed, upResponse, upOutcome, upAborted>>

(* ----------------------------- the URL form -------------------------- *)

(* ExtractForm: its url state, its two props and what it gave onSubmit.    *)
VARIABLES
    url,            \* useState(''), as a sequence of pieces of text
    formDisabled,   \* the disabled prop
    formIsLoading,  \* the isLoading prop
    forwarded       \* the url of the last onSubmit call, <<>> before any

formVars == <<url, formDisabled, formIsLoading, forwarded>>

\* The pieces a url is written from: white space, the three supported
\* sources and another host.
Pieces == {" ", "youtube.com", "youtu.be", "vimeo.com", "example.com"}

Urls == UNION {[1..n -> Pieces] : n \in 0..MaxUrlLen}

\* url.includes(piece)
includes(u, piece) == \E i \in 1..Len(u) : u[i] = piece

\* url.trim()
RECURSIVE trim(_)
trim(u) ==
    IF u = <<>> THEN u
    ELSE IF Head(u) = " " THEN trim(Tail(u))
    ELSE IF u[Len(u)] = " " THEN trim(SubSeq(u, 1, Len(u) - 1))
    ELSE u

\* const isValidUrl = url.includes('youtube.com') || ...
isValidUrl(u) ==
    includes(u, "youtube.com") \/ includes(u, "youtu.be") \/ includes(u, "vimeo.com")

\* The form as first rendered.
FormIdle ==
    /\ url = <<>>
    /\ formDisabled = FALSE
    /\ formIsLoading = FALSE
    /\ forwarded = <<>>

\* onChange of the url input, which is disabled with either prop.
SetUrl(u) ==
    /\ ~(formDisabled \/ formIsLoading)
    /\ url' = u
    /\ UNCHANGED <<formDisabled, formIsLoading, forwarded>>

\* The parent renders the form with other props.
SetProps(d, l) ==
    /\ <<d, l>> # <<formDisabled, formIsLoading>>
    /\ formDisabled' = d
    /\ formIsLoading' = l
    /\ UNCHANGED <<url, forwarded>>

\* handleSubmit: the trimmed url goes to onSubmit when it is not empty and
\* neither prop is set.
handleSubmit ==
    /\ forwarded' = IF trim(url) # <<>> /\ ~formDisabled /\ ~formIsLoading
                    THEN <<trim(url)>>
                    ELSE forwarded
    /\ UNCHANGED <<url, formDisabled, formIsLoading>>

\* ButtonSubmit with a button that does not look at isValidUrl.
ButtonSubmitUnchecked ==
    /\ ~(trim(url) = <<>> \/ formDisabled \/ formIsLoading)
    /\ handleSubmit

\* The submit button is used (a click, or Enter in the input, which submits
\* through the button): it is disabled unless the url is not blank, passes
\* isValidUrl and neither prop is set.
ButtonSubmit ==
    /\ ~(trim(url) = <<>> \/ ~isValidUrl(url) \/ formDisabled \/ formIsLoading)
    /\ handleSubmit

\* A submit event reaches the form without the button (requestSubmit()).
SubmitEvent == handleSubmit

(* --------------------------- specification ---------------------------- *)

\* The variables of the page outside the hook.
appVars == <<reqVars, uploadVars, formVars>>

\* The page outside the hook at rest.
AppIdle == RequestIdle /\ UploadIdle /\ FormIdle


\* The hook after its first render and mount effect: nothing persisted, or
\* the id of a job submitted by an earlier page load (which the service still
\* knows, or no longer does), with the resume fetch in flight.
Init ==
    /\ isLoading = FALSE
    /\ isPolling = FALSE
    /\ job = NoJob
    /\ videoInfo = Null
    /\ error = Null
    /\ pollingRef = NoId
    /\ jobIdRef = NoId
    /\ timers = {}
    /\ nextTimer = 1
    /\ nTicks = 0
    /\ calls = <<>>
    /\ logged = 0
    /\ mounted = TRUE
    /\ nInfos = 0
    /\ lookups = 0
    /\ AppIdle
    /\ \/ /\ storage = NoId
          /\ submitted = 0
          /\ srv = [j \in JobIds |-> SrvAbsent]
          /\ inflight = <<>>
       \/ /\ storage = 1
          /\ submitted = 1
          /\ \E s \in {SrvPending, SrvGone} :
                srv = [j \in JobIds |-> IF j = 1 THEN s ELSE SrvAbsent]
          /\ inflight = <<Request("resume", getSavedJobId, 1)>>

Next ==
    \/ Extract /\ UNCHANGED appVars
    \/ Reset /\ UNCHANGED appVars
    \/ FetchInfo /\ UNCHANGED appVars
    \/ Unmount /\ UNCHANGED appVars
    \/ \E resp \in InfoResponses : InfoSettle(resp) /\ UNCHANGED appVars
    \/ \E t \in timers : Tick(t) /\ UNCHANGED appVars
    \/ \E i \in 1..Len(inflight) : \E resp \in GetJobResponses(inflight[i]) :
          PollSettle(i, resp) /\ UNCHANGED appVars
    \/ \E i \in 1..Len(inflight) : \E resp \in GetJobResponses(inflight[i]) :
          ResumeSettle(i, resp) /\ UNCHANGED appVars
    \/ \E i \in 1..Len(inflight) : \E resp \in ExtractResponses :
          ExtractSettle(i, resp) /\ UNCHANGED appVars

Spec == Init /\ [][Next]_vars

\* A freshly loaded page with nothing persisted.
InitFresh == Init /\ storage = NoId

\* One extract whose requests are answered and settle in the order they were
\* sent, none of them failing.
NextOrdered ==
    \/ Extract /\ submitted = 0 /\ UNCHANGED appVars
    \/ \E t \in timers : Tick(t) /\ UNCHANGED appVars
    \/ /\ inflight # <<>>
       /\ \E resp \in GetJobInOrder(inflight[1]) \ {Failure} : PollSettle(1, resp)
       /\ UNCHANGED appVars
    \/ /\ inflight # <<>>
       /\ \E resp \in ExtractResponses \ {Failure} : ExtractSettle(1, resp)
       /\ UNCHANGED appVars

SpecOrdered == InitFresh /\ [][NextOrdered]_vars

\* A page load that finds the id of a job the service still knows.
InitResume == Init /\ storage # NoId /\ srv[storage] = SrvPending

\* The interval fires, as often as it likes, while fewer than MaxInflight
\* status fetches are outstanding.
IntervalFires ==
    /\ Len(inflight) < MaxInflight
    /\ \E t \in timers : IntervalCallback(t)
    /\ UNCHANGED nTicks

\* A status fetch of a poll loop succeeds and reports a terminal status.
PollTerminal ==
    \E i \in 1..Len(inflight) : \E resp \in GetJobResponses(inflight[i]) :
        resp.ok /\ resp.job.status \in Terminal /\ PollSettle(i, resp)

\* The resumed job left to itself: the resume fetch and the polls settle
\* (at most MaxFailures polls by a transport failure), the interval fires.
NextResume ==
    \/ IntervalFires /\ UNCHANGED appVars
    \/ \E i \in 1..Len(inflight) : \E resp \in GetJobResponses(inflight[i]) :
          ResumeSettle(i, resp) /\ UNCHANGED appVars
    \/ \E i \in 1..Len(inflight) : \E resp \in GetJobResponses(inflight[i]) :
          (resp.ok \/ logged < MaxFailures) /\ PollSettle(i, resp)
          /\ UNCHANGED appVars

\* The interval keeps firing while it is set; the service eventually reports
\* a terminal status to a status fetch that succeeds.
SpecResume ==
    /\ InitResume
    /\ [][NextResume]_vars
    /\ WF_vars(IntervalFires)
    /\ SF_vars(PollTerminal)

\* A call of a request helper is made.
RequestCall(h) ==
    /\ reqHelper = "none"
    /\ reqHelper' = h
    /\ UNCHANGED <<reqResponse, reqOutcome>>

\* fetch settles with r.
FetchSettles(r) ==
    /\ reqHelper # "none"
    /\ reqResponse = NoResponse
    /\ reqResponse' = r
    /\ UNCHANGED <<reqHelper, reqOutcome>>

\* The helper runs on what fetch settled with and its promise settles.
RequestSettles ==
    /\ reqResponse # NoResponse
    /\ reqOutcome = Pending
    /\ reqOutcome' = IF reqHelper = "request" THEN request(reqResponse)
                     ELSE handleResponse(reqResponse)
    /\ UNCHANGED <<reqHelper, reqResponse>>

\* One call of a request helper on a page whose hook is at rest.
NextRequest ==
    \/ \E h \in {"request", "handleResponse"} :
          RequestCall(h) /\ UNCHANGED <<vars, uploadVars, formVars>>
    \/ \E r \in Responses \cup {NetworkError} :
          FetchSettles(r) /\ UNCHANGED <<vars, uploadVars, formVars>>
    \/ RequestSettles /\ UNCHANGED <<vars, uploadVars, formVars>>

SpecRequest == InitFresh /\ [][NextRequest]_<<vars, appVars>>

\* File uploads on a page whose hook is at rest.
NextUpload ==
    \/ HandleUpload /\ UNCHANGED <<vars, reqVars, formVars>>
    \/ \E t \in progressTimers : ProgressTick(t) /\ UNCHANGED <<vars, reqVars, formVars>>
    \/ \E r \in UploadResponses : UploadResponds(r) /\ UNCHANGED <<vars, reqVars, formVars>>
    \/ UploadBodyRead /\ UNCHANGED <<vars, reqVars, formVars>>
    \/ UploadFetchFails /\ UNCHANGED <<vars, reqVars, formVars>>
    \/ UploadTimeout /\ UNCHANGED <<vars, reqVars, formVars>>
    \/ HandleReset /\ UNCHANGED <<reqVars, formVars>>

SpecUpload == InitFresh /\ [][NextUpload]_<<vars, appVars>>

\* The URL form on a page whose hook is at rest.
NextForm ==
    \/ \E u \in Urls : SetUrl(u) /\ UNCHANGED <<vars, reqVars, uploadVars>>
    \/ \E d, l \in BOOLEAN : SetProps(d, l) /\ UNCHANGED <<vars, reqVars, uploadVars>>
    \/ ButtonSubmit /\ UNCHANGED <<vars, reqVars, uploadVars>>
    \/ SubmitEvent /\ UNCHANGED <<vars, reqVars, uploadVars>>

SpecForm == InitFresh /\ [][NextForm]_<<vars, appVars>>

(* ------------------------------ claims -------------------------------- *)

\* Positions of the status fetches (GET /jobs/{job_id}) of job j in flight.
Fetches(j) ==
    {i \in 1..Len(inflight) :
        inflight[i].kind \in {"poll", "resume"} /\ inflight[i].job_id = j}

\* Number of invocations of callback cb so far.
Invocations(cb) == Cardinality({k \in 1..Len(calls) : calls[k].cb = cb})

\* C1: at most one repeating poll timer is live, and it is the one pollingRef
\* holds: no interval is left running once pollingRef has been overwritten.
C1_AtMostOneTimer ==
    /\ Cardinality(timers) <= 1
    /\ timers \subseteq {pollingRef}

\* C2: when two fetches of one job are in flight together and both resolve
\* with a terminal status, the outcome callback is invoked once in total: no
\* callback is invoked by a fetch that was in flight when another fetch of the
\* same job resolved with a terminal status.
C2_OutcomeCallbackOnce ==
    \A k \in 1..Len(calls) : ~calls[k].late

\* C3: the response of a status fetch that was in flight when reset() was
\* called changes no controller state and invokes no callback.
C3_ResetDiscardsLateResponse ==
    [][\A i \in 1..Len(inflight) : \A resp \in GetJobResponses(inflight[i]) :
          (inflight[i].torn = "reset" /\ PollSettle(i, resp))
          => UNCHANGED <<job, videoInfo, error, isPolling, storage, calls>>]_vars

\* C4: the response of a status fetch that was in flight when extract() tore
\* its loop down is discarded: it does not replace the held job, cancel the
\* poll timer, remove the persisted identifier or invoke a callback.
C4_ExtractDiscardsLateResponse ==
    [][\A i \in 1..Len(inflight) : \A resp \in GetJobResponses(inflight[i]) :
          (inflight[i].torn = "extract" /\ PollSettle(i, resp) /\ resp.ok)
          => UNCHANGED <<job, pollingRef, timers, storage, calls>>]_vars

\* C5: at most one status fetch per job is in flight at any time.
C5_OneFetchInFlight ==
    \A j \in JobIds : Cardinality(Fetches(j)) <= 1

\* C6: while the controller holds the same job, its exposed status never
\* moves back to an earlier stage and never leaves completed or failed.
C6_StatusMonotonic ==
    [][(job # NoJob /\ job'.job_id = job.job_id)
          => /\ Rank(job'.status) >= Rank(job.status)
             /\ job.status \in Terminal => job'.status = job.status]_vars

\* C7: once a terminal status of a job has been observed (a response
\* carrying it has been received, which srv records), no interval tick issues
\* a further status fetch for that job.
C7_NoFetchAfterTerminal ==
    [][\A t \in timers :
          (Tick(t) /\ jobIdRef # NoId /\ srv[jobIdRef].status \in Terminal)
          => inflight' = inflight]_vars

\* C8: a poll whose fetch fails at transport level (the step that logs the
\* error) leaves job, error, isPolling, the poll timer, the persisted
\* identifier and the callbacks untouched, and leaves the interval and the id
\* it polls in place, so the next tick still issues a fetch.
C8_TransportFailureIgnored ==
    [][logged' # logged
          => UNCHANGED <<job, error, isPolling, pollingRef, timers, storage,
                         calls, jobIdRef, videoInfo>>]_vars

\* C8 witness: two polls in a row have failed at transport level while the
\* loop is live, and no callback has been invoked.
C8_Witness ==
    /\ logged = 2
    /\ isPolling
    /\ pollingRef # NoId /\ pollingRef \in timers
    /\ job.job_id = jobIdRef
    /\ calls = <<>>

\* The response to the i-th request in flight that reports its job with
\* status st and result.error e, video_info being vi.
Reporting(i, st, e, vi) == Ok(JobRec(inflight[i].job_id, st, e), vi)

\* What C9 asserts of a poll that observes status failed with result.error = m.
FailedObserved(i, resp, m) ==
    (/\ resp.ok /\ resp.job.status = "failed" /\ resp.job.err = m
     /\ PollSettle(i, resp)
     /\ resp \in GetJobResponses(inflight[i]))
    => /\ Len(calls') = Len(calls) + 1
       /\ calls'[Len(calls')].cb = "onError"
       /\ calls'[Len(calls')].msg = m
       /\ error' = m
       /\ storage' = NoId
       /\ pollingRef' = NoId
       /\ pollingRef \notin timers'

C10_End ==
    job.status = "completed"
    => /\ Invocations("onComplete") = 1
       /\ calls[Len(calls)].job = job
       /\ storage = NoId

\* C10, one step: the exposed status takes the created job's status when the
\* extract settles and each polled status when a poll settles, and stays at
\* completed once there.
C10_Step ==
    /\ \A resp \in ExtractResponses :
          (inflight # <<>> /\ ExtractSettle(1, resp)) => job'.status = resp.job.status
    /\ \A resp \in (IF inflight = <<>> THEN {} ELSE GetJobInOrder(inflight[1]) \ {Failure}) :
          PollSettle(1, resp) => job'.status = resp.job.status
    /\ job.status = "completed" => job'.status = "completed"

\* C10: after a successful extract whose status fetches are answered in the
\* order they were issued, the exposed status runs through the created job's
\* status and each polled status in order, ending at completed; onComplete is
\* invoked exactly once, with the final job, and nothing is persisted.
C10_OrderedRun == [](C10_End) /\ [][C10_Step]_vars

\* C11, the resume step: a resume fetch that reports a status in process
\* starts the loop for the persisted identifier (interval set, one status
\* fetch sent) and leaves the persisted slot as it was.
C11_ResumeStep ==
    \A i \in 1..Len(inflight) : \A resp \in GetJobResponses(inflight[i]) :
        (ResumeSettle(i, resp) /\ resp.ok /\ resp.job.status \in InProcess)
        => /\ storage' = storage
           /\ jobIdRef' = inflight[i].job_id
           /\ isPolling'
           /\ pollingRef' # NoId /\ pollingRef' \in timers'
           /\ \E k \in 1..Len(inflight') :
                 inflight'[k].kind = "poll" /\ inflight'[k].job_id = inflight[i].job_id

\* C11, the end of the round trip: a terminal status is held, the interval
\* is cancelled, nothing is persisted, and the callback of that outcome has
\* just been invoked as pollJob invokes it for any job.
C11_RoundTripDone ==
    /\ job.status \in Terminal
    /\ pollingRef = NoId /\ timers = {}
    /\ storage = NoId
    /\ calls # <<>>
    /\ job.status = "completed"
          => calls[Len(calls)].cb = "onComplete" /\ calls[Len(calls)].job = job
    /\ job.status = "failed"
          => /\ calls[Len(calls)].cb = "onError"
             /\ calls[Len(calls)].msg = OrElse(job.err, "Error")

\* C11 without the count of invocations: the loop starts as stated and the
\* round trip ends as stated.
C11_RoundTripLive ==
    /\ [][C11_ResumeStep]_vars
    /\ (pollingRef # NoId) ~> C11_RoundTripDone

\* C11: when the resume fetch reports a status in process, polling starts
\* for the persisted identifier without rewriting the persisted slot, and,
\* the interval firing and the service eventually reporting a terminal
\* status to a successful fetch, the controller eventually observes it,
\* cancels the timer, clears the persisted identifier and invokes the
\* callback of that outcome, a single time.
C11_ResumeRoundTrip ==
    /\ C11_RoundTripLive
    /\ [](Len(calls) <= 1)

\* C12: when the resume fetch reports status completed, onComplete is
\* invoked once with that job, no interval is started (and no status fetch
\* sent), and the persisted identifier is cleared.
C12_ResumeCompleted ==
    [][\A i \in 1..Len(inflight) : \A vi \in {Undefined, "info"} :
          LET resp == Reporting(i, "completed", Undefined, vi) IN
          (ResumeSettle(i, resp) /\ resp \in GetJobResponses(inflight[i]))
          => /\ calls' = Append(calls, OnComplete(resp.job, inflight[i]))
             /\ job' = resp.job
             /\ storage' = NoId
             /\ UNCHANGED <<timers, nextTimer, pollingRef, jobIdRef, isPolling>>
             /\ inflight' = RemoveAt(inflight, i)]_vars

\* C12 witness: the page was loaded with a persisted id, the resume fetch
\* reported completed, and nothing else has happened.
C12_Witness ==
    /\ job.job_id = 1 /\ job.status = "completed"
    /\ calls = <<[cb |-> "onComplete", job |-> job, msg |-> "", late |-> FALSE]>>
    /\ storage = NoId
    /\ nextTimer = 1 /\ timers = {} /\ pollingRef = NoId /\ jobIdRef = NoId
    /\ inflight = <<>> /\ submitted = 1 /\ mounted

\* C13: when the resume fetch itself fails, the persisted identifier is
\* removed, no interval is started, the held job is left as it was (null)
\* and no callback is invoked.
C13_ResumeFetchFails ==
    [][\A i \in 1..Len(inflight) :
          (ResumeSettle(i, Failure) /\ inflight[i].kind = "resume")
          => /\ storage' = NoId
             /\ UNCHANGED <<job, calls, timers, nextTimer, pollingRef,
                            jobIdRef, isPolling, error>>
             /\ inflight' = RemoveAt(inflight, i)]_vars

\* C13 witness: the page was loaded with the id of a job the service no
\* longer knows, and the resume fetch has failed.
C13_Witness ==
    /\ srv[1].status = "gone"
    /\ storage = NoId
    /\ job = NoJob /\ calls = <<>>
    /\ nextTimer = 1 /\ timers = {} /\ pollingRef = NoId
    /\ inflight = <<>> /\ submitted = 1 /\ mounted

\* C14: when extract's creation request succeeds, the returned job becomes
\* the held job, its job_id replaces whatever the persisted slot held, and a
\* poll loop is started for that job_id (interval set, jobIdRef pointing at
\* it, one status fetch sent) with isPolling true and isLoading false.
C14_ExtractSucceeds ==
    [][\A i \in 1..Len(inflight) : \A resp \in ExtractResponses :
          (ExtractSettle(i, resp) /\ resp.ok)
          => /\ job' = resp.job
             /\ storage' = resp.job.job_id
             /\ jobIdRef' = resp.job.job_id
             /\ pollingRef' # NoId /\ pollingRef' \in timers'
             /\ pollingRef' \notin timers
             /\ isPolling' /\ ~isLoading'
             /\ \E k \in 1..Len(inflight') :
                   /\ inflight'[k].kind = "poll"
                   /\ inflight'[k].job_id = resp.job.job_id]_vars

\* C14 witness: a second extract has succeeded while the slot held the id
\* of the first job, and the slot now holds the second job's id.
C14_Witness ==
    /\ mounted
    /\ job.job_id = 2 /\ job.status = "pending"
    /\ storage = 2 /\ jobIdRef = 2
    /\ srv[1].status \in InProcess
    /\ isPolling /\ ~isLoading
    /\ pollingRef \in timers
    /\ \E k \in 1..Len(inflight) : inflight[k].kind = "poll" /\ inflight[k].job_id = 2

\* The last request sent, in a step that sent one.
Sent == inflight'[Len(inflight')]

\* C15: a step that starts a poll loop (sets a new interval) sends one status
\* fetch for the loop's job in the same step, before any tick; each tick
\* sends one status fetch for the job jobIdRef names while no terminal status
\* of that job has been observed, and none once one has been.
C15_FetchPerTick ==
    [][/\ (pollingRef' # pollingRef /\ pollingRef' # NoId)
            => /\ Len(inflight') = Len(inflight)
               /\ Sent.kind = "poll" /\ Sent.job_id = jobIdRef'
       /\ \A t \in timers :
             (Tick(t) /\ jobIdRef # NoId)
             => IF srv[jobIdRef].status \in Terminal
                THEN inflight' = inflight
                ELSE /\ Len(inflight') = Len(inflight) + 1
                     /\ Sent.kind = "poll" /\ Sent.job_id = jobIdRef]_vars

\* C16: when extract's creation request fails, no job is retained (job is
\* null), no interval is started or left referenced, isPolling and isLoading
\* are false, the error state holds the failure message and onError is
\* invoked once with it.
C16_ExtractFails ==
    [][\A i \in 1..Len(inflight) :
          (mounted /\ ExtractSettle(i, Failure) /\ inflight[i].kind = "extract")
          => /\ job' = NoJob
             /\ UNCHANGED <<timers, nextTimer>>
             /\ pollingRef' = NoId
             /\ ~isPolling' /\ ~isLoading'
             /\ error' = Failure.msg
             /\ calls' = Append(calls, OnError(Failure.msg, inflight[i]))]_vars

\* C17: extract, before its creation request is sent, cancels the interval
\* pollingRef holds and sets job and error to null and isPolling to false:
\* in the step that sends POST /extract the controller ends up referencing
\* no timer and holding no job.
C17_ExtractTearsDown ==
    [][(Len(inflight') = Len(inflight) + 1
           /\ inflight'[Len(inflight')].kind = "extract")
          => /\ pollingRef \notin timers'
             /\ pollingRef' = NoId
             /\ job' = NoJob
             /\ error' = Null
             /\ ~isPolling']_vars

\* C17 witness: extract was called while a loop was running; its request is
\* in flight beside a status fetch of the loop it tore down.
C17_Witness ==
    /\ \E k \in 1..Len(inflight) : inflight[k].kind = "poll" /\ inflight[k].torn = "extract"
    /\ inflight[Len(inflight)].kind = "extract"
    /\ pollingRef = NoId /\ timers = {}
    /\ job = NoJob /\ error = Null /\ ~isPolling /\ isLoading
    /\ storage = 1 /\ jobIdRef = 1

\* The state reset() leaves the controller in, but for its timers.
Cleared ==
    /\ pollingRef = NoId /\ jobIdRef = NoId
    /\ storage = NoId
    /\ job = NoJob /\ videoInfo = Null /\ error = Null
    /\ ~isLoading /\ ~isPolling

\* C18 for everything reset() clears but the intervals that are live:
\* reset() leaves the cleared state, and called in the cleared state (as a
\* second call in a row is) changes nothing of the controller.
C18_ResetClears ==
    [][Reset => /\ Cleared'
                /\ pollingRef \notin timers'
                /\ Cleared => UNCHANGED <<isLoading, isPolling, job, videoInfo,
                                          error, pollingRef, jobIdRef, storage,
                                          timers, nextTimer, calls>>]_vars

\* C18: reset() called in any state leaves the controller with no poll
\* timer, no persisted identifier, job, videoInfo and error null, isLoading
\* and isPolling false and jobIdRef null, and a second call in a row changes
\* nothing.
C18_ResetLeavesNothing ==
    [][Reset => /\ Cleared'
                /\ timers' = {}
                /\ Cleared => UNCHANGED <<isLoading, isPolling, job, videoInfo,
                                          error, pollingRef, jobIdRef, storage,
                                          timers, nextTimer, calls>>]_vars

\* C19: after the component has unmounted no poll timer is live (so none is
\* created afterwards either).
C19_NoTimerAfterUnmount ==
    ~mounted => timers = {}

\* C20: fetchInfo, up to its await and after it, by success or by failure,
\* leaves the held job, isPolling, the poll timer, jobIdRef and the
\* persisted identifier unchanged and sends no job request.
C20_FetchInfoFrame ==
    [][(FetchInfo \/ \E resp \in InfoResponses : InfoSettle(resp))
          => UNCHANGED <<job, isPolling, pollingRef, timers, nextTimer,
                         jobIdRef, storage, inflight, calls>>]_vars

\* C20 witness: fetchInfo was called and its lookup has settled while a
\* poll loop is running for the held, persisted job.
C20_Witness ==
    /\ nInfos = 1 /\ lookups = 0
    /\ mounted /\ isPolling /\ ~isLoading
    /\ pollingRef # NoId /\ pollingRef \in timers
    /\ job.status \in InProcess
    /\ jobIdRef = job.job_id /\ storage = job.job_id
    /\ error = RequestError

C25_SlotNamesPolledJob ==
    timers # {} => (jobIdRef # NoId /\ storage = jobIdRef)

\* C26: when the resume fetch reports status failed, the persisted
\* identifier is removed, the fetched job becomes the held job, no interval
\* is started and no status fetch sent, onError is not invoked and the
\* error state is not set.
C26_ResumeFailedSilent ==
    [][\A i \in 1..Len(inflight) : \A vi \in {Undefined, "info"} :
          \A e \in ResultErrors :
             LET resp == Reporting(i, "failed", e, vi) IN
             (ResumeSettle(i, resp) /\ resp \in GetJobResponses(inflight[i]))
             => /\ storage' = NoId
                /\ job' = resp.job
                /\ UNCHANGED <<calls, error, timers, nextTimer, pollingRef,
                               jobIdRef, isPolling>>
                /\ inflight' = RemoveAt(inflight, i)]_vars

\* C26 witness: the page was loaded with a persisted id, the resume fetch
\* reported failed with a message, and nothing else has happened.
C26_Witness ==
    /\ job.job_id = 1 /\ job.status = "failed" /\ job.err = "Video too long"
    /\ calls = <<>> /\ error = Null
    /\ storage = NoId
    /\ nextTimer = 1 /\ timers = {} /\ pollingRef = NoId
    /\ inflight = <<>> /\ submitted = 1 /\ mounted

C29_PollingIffTimerHeld ==
    mounted => (isPolling <=> pollingRef # NoId)

\* C29 witness: a loop was started (both set) and a poll has since observed
\* a terminal status (both cleared).
C29_Witness ==
    /\ mounted
    /\ nextTimer > 1 /\ job.status \in Terminal /\ calls # <<>>
    /\ ~isPolling /\ pollingRef = NoId

\* C30: for every failed status observed by a poll, the message stored in
\* the error state equals the message of the Error passed to onError,
\* whether result.error is a message, empty or absent.
C30_SameMessage ==
    [][\A i \in 1..Len(inflight) : \A vi \in {Undefined, "info"} :
          \A e \in ResultErrors :
             LET resp == Reporting(i, "failed", e, vi) IN
             (PollSettle(i, resp) /\ resp \in GetJobResponses(inflight[i]))
             => error' = calls'[Len(calls')].msg]_vars

\* The call has settled on a non-2xx response.
SettledNotOk ==
    /\ reqOutcome # Pending
    /\ reqResponse.kind = "response" /\ ~IsOk(reqResponse.status)

\* C22 as stated: for every non-2xx response the helper rejects, with the
\* body's detail field verbatim as message when the body parses as JSON and
\* a generic message when it does not.
C22_DetailVerbatim ==
    SettledNotOk
    => /\ reqOutcome.state = "rejected"
       /\ reqResponse.body.parse # "error"
             => reqOutcome.message = reqResponse.body.detail.text
       /\ reqResponse.body.parse = "error"
             => reqOutcome.message = "Error desconocido"

\* C22 amended: for every non-2xx response the helper rejects and never
\* resolves; the message is the body's detail field verbatim when the body
\* parses as a JSON object whose detail is a non-empty string, and the
\* generic message when the body cannot be parsed.
C22_StringDetailVerbatim ==
    SettledNotOk
    => /\ reqOutcome.state = "rejected"
       /\ (/\ reqResponse.body.parse = "object"
           /\ reqResponse.body.detail.type = "string"
           /\ reqResponse.body.detail.text # "")
             => reqOutcome.message = reqResponse.body.detail.text
       /\ reqResponse.body.parse = "error"
             => reqOutcome.message = "Error desconocido"

\* C22 witness: `request` has rejected a 404 with the detail of its body.
C22_Witness ==
    /\ reqHelper = "request"
    /\ reqResponse = Response(404, JsonObject(StringDetail("Job no encontrado")))
    /\ reqOutcome = Rejected("Error", "Job no encontrado")

\* C23: an uploadVideo call whose timeout fires before a response has
\* arrived is aborted and rejects with the took-too-long error; that error
\* differs from every error made from a non-2xx response; and a call whose
\* response arrived never rejects with the took-too-long error.
C23_TimeoutDistinct ==
    /\ (upAborted /\ upResponse = NoUploadResponse)
          => upOutcome = Rejected("Error", TookTooLong)
    /\ \A r \in UploadResponses :
          ~IsOk(r.status) => uploadVideoThen(r).message # TookTooLong
    /\ upResponse # NoUploadResponse => upOutcome.message # TookTooLong

\* C23 witness: the timeout fired on a call still fetching, which rejected
\* with the took-too-long error handleUpload then stored.
C23_Witness ==
    /\ upAborted /\ upResponse = NoUploadResponse
    /\ upOutcome = Rejected("Error", TookTooLong)
    /\ uploadError = TookTooLong

\* C28: whenever handleUpload has finished its simulated-progress interval
\* is cancelled, and from then on uploadProgress changes only through a new
\* handleUpload (isUploading set) or handleReset (progress back to 0 with
\* the result and error cleared).
C28_ProgressStopsWithUpload ==
    [][/\ (isUploading /\ ~isUploading') => progressInterval \notin progressTimers'
       /\ (~isUploading /\ uploadProgress' # uploadProgress)
             => \/ isUploading'
                \/ uploadProgress' = 0 /\ uploadError' = Null
      ]_<<vars, appVars>>

\* C24: onSubmit is given only references that pass the supported-source
\* check; a reference that is not empty and fails the check is never
\* forwarded, whatever disabled and isLoading are.
C24_ForwardsOnlyValid ==
    forwarded # <<>> => isValidUrl(forwarded[1])

\* C24 amended: a submission through the submit button forwards the trimmed
\* reference and only one that passes the supported-source check, and
\* nothing is forwarded by any submission while disabled or isLoading is
\* set.
C24_ButtonForwardsOnlyValid ==
    [][/\ ButtonSubmit => (forwarded' = <<trim(url)>> /\ isValidUrl(forwarded'[1]))
       /\ (formDisabled \/ formIsLoading) => forwarded' = forwarded
      ]_<<vars, appVars>>

\* C24 witness: a reference typed with leading white space has been
\* forwarded trimmed.
C24_Witness ==
    /\ url = <<" ", "youtube.com">>
    /\ forwarded = <<(<<"youtube.com">>)>>

=============================================================================
